---- MODULE Spec2Model ----
(***************************************************************************)
(* Model of the swap client orchestration layer (client/client.go):        *)
(* Client.Run, Client.resumeSwaps, Client.Uncharge and                     *)
(* Client.waitForInitialized, together with the executor, the store and    *)
(* the swap constructors they call.                                        *)
(***************************************************************************)
EXTENDS Integers, Sequences, FiniteSets, TLC

\* ---------------------------------------------------------------- bounds
MaxPersisted == 2
NumRunCallers == 2
NumUnchargeCallers == 1

\* Identifier hashes: those a previous run may have persisted, and one fresh
\* hash for every Uncharge call.
PersistedHashes == 1..MaxPersisted
RunCallers == 1..NumRunCallers
UnchargeCallers == 1..NumUnchargeCallers
Hashes == 1..(MaxPersisted + NumUnchargeCallers)

\* ------------------------------------------------------- swap state types
StateTypePending == "pending"
TerminalStates == {"success", "failed", "expired"}
RecordStates == {StateTypePending} \cup TerminalStates
\* The terminal states a running unit ends in: success, or failure; failed
\* stands for either failure state, which end the unit in the same way.
UnitOutcomes == {"success", "failed"}
NoRecord == "none"
\* No read-only call has answered yet.
NoReply == [op |-> "none"]

\* Error values returned by Run and Uncharge.
Nil == "nil"
ErrStartedOnce == "swap client can only be started once"
ErrGetInfo == "GetInfo error"
ErrStore == "store error"
ContextCanceled == "context canceled"
ErrSubscribe == "block subscription error"
ErrBlock == "block error"
ErrNewSwap == "new swap error"
ErrSwapAmountTooLow == "swap amount too low"
ErrSwapAmountTooHigh == "swap amount too high"
ErrServer == "server error"
ErrSweeper == "fee estimate error"
FatalErrors == {ErrSubscribe, ErrBlock}

\* ------------------------------------------------------- terms and requests
\* The terms the swap server advertises: amounts in satoshis, the fee rate
\* as a fraction of the amount.
ExampleTerms ==
    [MinSwapAmount |-> 10000, MaxSwapAmount |-> 1000000,
     SwapFeeBase |-> 100, SwapFeeRate |-> [num |-> 1, den |-> 100],
     PrepayAmt |-> 1337]

\* The amount of a request the terms accept.
ExampleAmount == 50000

\* Request amounts: below the minimum, the minimum, in between, the
\* maximum, above the maximum.
RequestAmounts ==
    {ExampleTerms.MinSwapAmount - 1, ExampleTerms.MinSwapAmount,
     ExampleAmount,
     ExampleTerms.MaxSwapAmount, ExampleTerms.MaxSwapAmount + 1}

\* The confirmation targets a quote is asked for, and the miner fee the
\* sweeper estimates for each.
SweepConfTargets == {2, 6}

VARIABLES
    started,        \* Client.started (0 or 1)
    resumeReady,    \* Client.resumeReady is closed
    closeCount,     \* number of close(resumeReady) executions
    store,          \* Store: hash -> persisted state or NoRecord
    rpc, rerr, rctx,\* per Run call: position, return value, ctx cancelled
    rcause,         \* per Run call: why it terminated
    passed,         \* Run calls that passed the start guard
    mainCancel,     \* mainCancel() has been called
    getInfoCalls,   \* number of GetInfo queries made
    storeReads,     \* number of Store snapshots taken by Run
    pendingSwaps,   \* the snapshot: sequence of [hash, state]
    resPc, resIdx,  \* resume goroutine: position, index in pendingSwaps
    resumed,        \* hash -> times the resume pass handed it to the executor
    resumeTried,    \* hashes resumeUnchargeSwap was called for
    resumeFailed,   \* hashes resumeUnchargeSwap failed for
    resumeDropped,  \* hashes whose initiateSwap returned on ctx.Done
    epc, eerr,      \* executor.run: position, return value
    execReady,      \* executor.ready is closed
    units,          \* hash -> number of running ExecutionUnits
    upc, uerr,      \* per Uncharge call: position, error returned
    uhash,          \* per Uncharge call: hash of the swap created (0: none)
    newSubmitted,   \* hashes handed to the executor by Uncharge
    uamt,           \* per Uncharge call: request.Amount
    uctx,           \* per Uncharge call: globalCtx is cancelled
    heightReads,    \* number of s.executor.height() reads
    reply           \* the last answer of a read-only call

runVars == <<rpc, rerr, rctx, rcause, passed, mainCancel, getInfoCalls,
             storeReads, pendingSwaps>>
resVars == <<resPc, resIdx, resumed, resumeTried, resumeFailed,
             resumeDropped>>
execVars == <<epc, eerr, execReady, units>>
unchVars == <<upc, uerr, uhash, newSubmitted, uamt, uctx, heightReads>>
vars == <<started, resumeReady, closeCount, store, runVars, resVars,
          execVars, unchVars, reply>>

\* ---------------------------------------------------------------- helpers
\* Store.getUnchargeSwaps: every record of the store, in key (hash) order.
GetUnchargeSwaps(st) ==
    LET all == [h \in Hashes |-> [hash |-> h, state |-> st[h]]]
        IsRecord(rec) == rec.state # NoRecord
    IN  SelectSeq(all, IsRecord)

\* SwapState.Type(): Pending or Terminal.
StateType(s) == IF s = StateTypePending THEN "pending" ELSE "terminal"

\* mainCtx.Done(): the context derived from the ctx of the Run call that
\* passed the guard is done when that ctx is cancelled or mainCancel ran.
MainDone == mainCancel \/ \E r \in passed : rctx[r]

\* The store a previous run left behind: a record in any state under some
\* of the persisted hashes. Hash values are interchangeable, so the records
\* take the first hashes; their states come in every order.
InitialStores ==
    {s \in [Hashes -> RecordStates \cup {NoRecord}] :
        /\ \A h \in Hashes \ PersistedHashes : s[h] = NoRecord
        /\ \A h \in PersistedHashes : \A g \in PersistedHashes :
              (h < g /\ s[h] = NoRecord) => s[g] = NoRecord}

\* Calls of one operation are interchangeable, so they are numbered in the
\* order in which they take their first step: call i takes its first step
\* once every call before it has left the initial position.
InCallOrder(pcs, i, initial) == \A j \in 1..(i - 1) : pcs[j] # initial

\* ------------------------------------------------------------------- Init
\* The client after NewClient, with the calls of Run and Uncharge that will
\* be made; amounts are the amounts the Uncharge requests may carry.
InitClient(amounts) ==
    /\ started = 0
    /\ resumeReady = FALSE
    /\ closeCount = 0
    /\ store \in InitialStores
    /\ rpc = [r \in RunCallers |-> "guard"]
    /\ rerr = [r \in RunCallers |-> Nil]
    /\ rctx = [r \in RunCallers |-> FALSE]
    /\ rcause = [r \in RunCallers |-> "none"]
    /\ passed = {}
    /\ mainCancel = FALSE
    /\ getInfoCalls = 0
    /\ storeReads = 0
    /\ pendingSwaps = <<>>
    /\ resPc = "none"
    /\ resIdx = 0
    /\ resumed = [h \in Hashes |-> 0]
    /\ resumeTried = {}
    /\ resumeFailed = {}
    /\ resumeDropped = {}
    /\ epc = "idle"
    /\ eerr = Nil
    /\ execReady = FALSE
    /\ units = [h \in Hashes |-> 0]
    /\ upc = [u \in UnchargeCallers |-> "waitExecutor"]
    /\ uerr = [u \in UnchargeCallers |-> Nil]
    /\ uhash = [u \in UnchargeCallers |-> 0]
    /\ newSubmitted = {}
    /\ uamt \in [UnchargeCallers -> amounts]
    /\ uctx = [u \in UnchargeCallers |-> FALSE]
    /\ heightReads = 0
    /\ reply = NoReply

\* Requests for an amount the terms accept.
Init == InitClient({ExampleAmount})

\* ------------------------------------------------------------ Client.Run
\* Variant: the guard lets every call through.
CompareAndSwapAlways == TRUE

\* Variant: a call is let through again after a Run that failed early.
CompareAndSwapRetry ==
    \/ started = 0
    \/ \E r \in passed : rpc[r] = "returned" /\ rerr[r] \in {ErrGetInfo, ErrStore}

\* atomic.CompareAndSwapUint32(&s.started, 0, 1)
CompareAndSwapStarted == started = 0

\* Variant: Run goes to the store without the connectivity check.
FirstStepSnapshot == "snapshot"

\* The first step of Run behind the guard: s.lndServices.Client.GetInfo.
FirstStep == "getInfo"

\* Run, start guard: the CAS succeeds for one call, every other call
\* returns the error at once.
RunGuard(r) ==
    /\ rpc[r] = "guard"
    /\ InCallOrder(rpc, r, "guard")
    /\ IF CompareAndSwapStarted
       THEN /\ started' = 1
            /\ passed' = passed \cup {r}
            /\ rpc' = [rpc EXCEPT ![r] = FirstStep]
            /\ UNCHANGED <<rerr, rcause>>
       ELSE /\ rpc' = [rpc EXCEPT ![r] = "returned"]
            /\ rerr' = [rerr EXCEPT ![r] = ErrStartedOnce]
            /\ rcause' = [rcause EXCEPT ![r] = "guard"]
            /\ UNCHANGED <<started, passed>>
    /\ UNCHANGED <<resumeReady, closeCount, store, rctx, mainCancel,
                   getInfoCalls, storeReads, pendingSwaps, resVars,
                   execVars, unchVars, reply>>

\* s.lndServices.Client.GetInfo(ctx): succeeds, or fails; a failure while
\* ctx is cancelled is the RPC reporting the cancellation.
RunGetInfo(r) ==
    /\ rpc[r] = "getInfo"
    /\ getInfoCalls' = getInfoCalls + 1
    /\ \E ok \in BOOLEAN :
         IF ok
         THEN /\ rpc' = [rpc EXCEPT ![r] = "snapshot"]
              /\ UNCHANGED <<rerr, rcause>>
         ELSE /\ rpc' = [rpc EXCEPT ![r] = "returned"]
              /\ rerr' = [rerr EXCEPT ![r] = ErrGetInfo]
              /\ rcause' = [rcause EXCEPT ![r] =
                              IF rctx[r] THEN "canceled" ELSE "error"]
    /\ UNCHANGED <<started, resumeReady, closeCount, store, rctx, passed,
                   mainCancel, storeReads, pendingSwaps, resVars, execVars,
                   unchVars, reply>>

\* pendingSwaps, err := s.Store.getUnchargeSwaps(); on success the resume
\* goroutine is started (s.wg.Add(1); go func) and executor.run is entered.
RunSnapshot(r) ==
    /\ rpc[r] = "snapshot"
    /\ storeReads' = storeReads + 1
    /\ \/ /\ pendingSwaps' = GetUnchargeSwaps(store)
          /\ rpc' = [rpc EXCEPT ![r] = "executorRun"]
          /\ resPc' = "loop"
          /\ resIdx' = 1
          /\ epc' = "firstBlock"
          /\ UNCHANGED <<rerr, rcause, mainCancel>>
       \/ /\ rpc' = [rpc EXCEPT ![r] = "returned"]
          /\ rerr' = [rerr EXCEPT ![r] = ErrStore]
          /\ rcause' = [rcause EXCEPT ![r] = "error"]
          /\ mainCancel' = TRUE
          /\ UNCHANGED <<pendingSwaps, resPc, resIdx, epc>>
    /\ UNCHANGED <<started, resumeReady, closeCount, store, rctx, passed,
                   getInfoCalls, resumed, resumeTried, resumeFailed,
                   resumeDropped, eerr, execReady, units,
                   unchVars, reply>>

\* Variant: the error of the executor loop is returned as it is.
ConsiderCanceledKeep(err) == err

\* Variant: every error of the executor loop is dropped.
ConsiderCanceledDropAll(err) == Nil

\* if err == context.Canceled { err = nil }
ConsiderCanceled(err) == IF err = ContextCanceled THEN Nil ELSE err

\* Variant: Run does not wait for the ExecutionUnits.
WaitFinishedSkip == TRUE

\* s.executor.waitFinished(): every ExecutionUnit has exited.
WaitFinished == \A h \in Hashes : units[h] = 0

\* Variant: Run does not wait for the resume goroutine.
WgWaitSkip == TRUE

\* s.wg.Wait(): the resume goroutine has exited.
WgWait == resPc = "done"

\* err = s.executor.run(mainCtx, statusChan) returns err to Run, which maps
\* Canceled to nil and calls mainCancel(). The call is synchronous and the
\* statements up to mainCancel() are local to Run, so this is part of the
\* step in which the executor loop ends.
RunAfterLoop(err) ==
    /\ epc' = "returned"
    /\ eerr' = err
    /\ rerr' = [r \in RunCallers |->
                  IF rpc[r] = "executorRun" THEN ConsiderCanceled(err)
                  ELSE rerr[r]]
    /\ rcause' = [r \in RunCallers |->
                    IF rpc[r] # "executorRun" THEN rcause[r]
                    ELSE IF err = ContextCanceled THEN "canceled" ELSE "error"]
    /\ mainCancel' = TRUE
    /\ rpc' = [r \in RunCallers |->
                 IF rpc[r] = "executorRun" THEN "waitExecutor" ELSE rpc[r]]

\* Run blocked in s.executor.waitFinished() and then in s.wg.Wait(), then
\* return err. Both conditions stay true once they are (the loop that
\* starts units has ended), so Run returns when both hold.
RunWait(r) ==
    /\ rpc[r] = "waitExecutor"
    /\ WaitFinished
    /\ WgWait
    /\ rpc' = [rpc EXCEPT ![r] = "returned"]
    /\ UNCHANGED <<started, resumeReady, closeCount, store, rerr, rctx,
                   rcause, passed, mainCancel, getInfoCalls, storeReads,
                   pendingSwaps, resVars, execVars, unchVars, reply>>

\* The caller of Run cancels the context it passed. Only the context of the
\* call that passed the guard is ever read, and once mainCancel() ran the
\* cancellation changes nothing a reader of mainCtx can see.
CancelRun(r) ==
    /\ r \in passed
    /\ rpc[r] # "returned"
    /\ ~mainCancel
    /\ ~rctx[r]
    /\ rctx' = [rctx EXCEPT ![r] = TRUE]
    /\ UNCHANGED <<started, resumeReady, closeCount, store, rpc, rerr,
                   rcause, passed, mainCancel, getInfoCalls, storeReads,
                   pendingSwaps, resVars, execVars, unchVars, reply>>

\* ---------------------------------------------------- Client.resumeSwaps
\* Variant: the filter is inverted, pending records are skipped.
SkipRecordInverted(pend) == StateType(pend.state) = StateTypePending

\* Variant: no filter, every record is resumed.
SkipRecordNever(pend) == FALSE

\* pend.State().Type() != StateTypePending  =>  continue
SkipRecord(pend) == StateType(pend.state) # StateTypePending

\* Variant: resumeSwaps returns at the first record it cannot reconstruct.
AfterResumeErrorReturn(idx, swaps) == Len(swaps) + 1

\* logger.Errorf("resuming swap: %v", err); continue
AfterResumeError(idx, swaps) == idx + 1

\* One iteration of the loop of resumeSwaps up to the call of initiateSwap.
ResumeStep ==
    /\ resPc = "loop"
    /\ resIdx <= Len(pendingSwaps)
    /\ LET pend == pendingSwaps[resIdx] IN
         IF SkipRecord(pend)
         THEN /\ resIdx' = resIdx + 1
              /\ UNCHANGED <<resPc, resumeTried, resumeFailed>>
         ELSE /\ resumeTried' = resumeTried \cup {pend.hash}
              /\ \E ok \in BOOLEAN :
                   IF ok
                   THEN /\ resPc' = "initiate"
                        /\ UNCHANGED <<resIdx, resumeFailed>>
                   ELSE /\ resumeFailed' = resumeFailed \cup {pend.hash}
                        /\ resIdx' = AfterResumeError(resIdx, pendingSwaps)
                        /\ UNCHANGED resPc
    /\ UNCHANGED <<started, resumeReady, closeCount, store, runVars, resumed,
                   resumeDropped, execVars, unchVars, reply>>

\* s.executor.initiateSwap(ctx, swap) in the resume pass, case <-ctx.Done().
ResumeInitiateDone ==
    /\ resPc = "initiate"
    /\ MainDone
    /\ resumeDropped' = resumeDropped \cup {pendingSwaps[resIdx].hash}
    /\ resIdx' = resIdx + 1
    /\ resPc' = "loop"
    /\ UNCHANGED <<started, resumeReady, closeCount, store, runVars, resumed,
                   resumeTried, resumeFailed, execVars, unchVars, reply>>

\* Variant: the gate stays shut when the cancellation cut the pass short.
CloseResumeReadyUnlessDone(ready) == ready \/ ~MainDone

\* close(s.resumeReady)
CloseResumeReady(ready) == TRUE

\* resumeSwaps returns at the end of the list: close(s.resumeReady), then
\* the deferred s.wg.Done().
ResumeClose ==
    /\ resPc = "loop"
    /\ resIdx > Len(pendingSwaps)
    /\ resumeReady' = CloseResumeReady(resumeReady)
    /\ closeCount' = closeCount + 1
    /\ resPc' = "done"
    /\ UNCHANGED <<started, store, runVars, resIdx, resumed, resumeTried,
                   resumeFailed, resumeDropped, execVars, unchVars, reply>>

\* ------------------------------------------------------------- executor
\* executor.run subscribes to the height notifications of the chain source
\* and waits for the first height, then signals ready; the subscription or
\* the chain source may fail, and the context may be done first.
ExecFirstBlock ==
    /\ epc = "firstBlock"
    /\ \/ /\ execReady' = TRUE
          /\ epc' = "loop"
          /\ UNCHANGED <<eerr, rpc, rerr, rcause, mainCancel>>
       \/ /\ \E err \in FatalErrors : RunAfterLoop(err)
          /\ UNCHANGED execReady
       \/ /\ MainDone
          /\ RunAfterLoop(ContextCanceled)
          /\ UNCHANGED execReady
    /\ UNCHANGED <<started, resumeReady, closeCount, store, rctx, passed,
                   getInfoCalls, storeReads, pendingSwaps, resVars, units,
                   unchVars, reply>>

\* Main loop, a swap handed over by the resume pass: an ExecutionUnit starts.
ExecNewSwapResumed ==
    /\ epc = "loop"
    /\ resPc = "initiate"
    /\ LET h == pendingSwaps[resIdx].hash IN
         /\ units' = [units EXCEPT ![h] = @ + 1]
         /\ resumed' = [resumed EXCEPT ![h] = @ + 1]
    /\ resIdx' = resIdx + 1
    /\ resPc' = "loop"
    /\ UNCHANGED <<started, resumeReady, closeCount, store, runVars,
                   resumeTried, resumeFailed, resumeDropped, epc, eerr,
                   execReady, unchVars, reply>>

\* Main loop, a swap handed over by Uncharge: an ExecutionUnit starts and
\* Uncharge returns the hash.
ExecNewSwapUncharge(u) ==
    /\ epc = "loop"
    /\ upc[u] = "initiate"
    /\ units' = [units EXCEPT ![uhash[u]] = @ + 1]
    /\ newSubmitted' = newSubmitted \cup {uhash[u]}
    /\ upc' = [upc EXCEPT ![u] = "returned"]
    /\ UNCHANGED <<started, resumeReady, closeCount, store, runVars, resVars,
                   epc, eerr, execReady, uerr, uhash, uamt, uctx,
                   heightReads, reply>>

\* Main loop, the chain source fails: fatal.
ExecBlockError ==
    /\ epc = "loop"
    /\ RunAfterLoop(ErrBlock)
    /\ UNCHANGED <<started, resumeReady, closeCount, store, rctx, passed,
                   getInfoCalls, storeReads, pendingSwaps, resVars, execReady,
                   units, unchVars, reply>>

\* Main loop, case <-mainCtx.Done().
ExecDone ==
    /\ epc = "loop"
    /\ MainDone
    /\ RunAfterLoop(ContextCanceled)
    /\ UNCHANGED <<started, resumeReady, closeCount, store, rctx, passed,
                   getInfoCalls, storeReads, pendingSwaps, resVars, execReady,
                   units, unchVars, reply>>

\* An ExecutionUnit reaches a terminal state, persists it and exits.
UnitTerminal(h) ==
    /\ units[h] > 0
    /\ \E t \in UnitOutcomes : store' = [store EXCEPT ![h] = t]
    /\ units' = [units EXCEPT ![h] = @ - 1]
    /\ UNCHANGED <<started, resumeReady, closeCount, runVars, resVars, epc,
                   eerr, execReady, unchVars, reply>>

\* An ExecutionUnit observes the cancellation and exits, its swap pending.
UnitCanceled(h) ==
    /\ units[h] > 0
    /\ MainDone
    /\ units' = [units EXCEPT ![h] = @ - 1]
    /\ UNCHANGED <<started, resumeReady, closeCount, store, runVars, resVars,
                   epc, eerr, execReady, unchVars, reply>>

\* ------------------------------------------- Client.waitForInitialized
\* Variant: waitForInitialized does not wait.
GateOpenNoWait(gate) == TRUE

\* Variant: both selects wait for the executor only.
GateOpenExecutorOnly(gate) == execReady

\* Variant: both selects wait for the resume pass only.
GateOpenResumeOnly(gate) == resumeReady

\* case <-s.executor.ready / case <-s.resumeReady
GateOpen(gate) == IF gate = "executor" THEN execReady ELSE resumeReady

\* Variant: Uncharge goes on when waitForInitialized returns an error.
WaitFailedIgnored(err) == FALSE

\* if err := s.waitForInitialized(globalCtx); err != nil { return nil, err }
WaitFailed(err) == err # Nil

\* The caller of Uncharge cancels globalCtx while the call waits for a gate
\* that is closed; the select of the call has not run since.
CancelUncharge(u) ==
    /\ \/ upc[u] = "waitExecutor" /\ ~GateOpen("executor")
       \/ upc[u] = "waitResume" /\ ~GateOpen("resume")
    /\ ~uctx[u]
    /\ uctx' = [uctx EXCEPT ![u] = TRUE]
    /\ UNCHANGED <<started, resumeReady, closeCount, store, runVars, resVars,
                   execVars, upc, uerr, uhash, newSubmitted, uamt,
                   heightReads, reply>>

\* case <-ctx.Done(): return ctx.Err(), which Uncharge returns. globalCtx
\* is cancelled by now: earlier, or just before the select ran.
WaitCtxDone(u) ==
    /\ uctx' = [uctx EXCEPT ![u] = TRUE]
    /\ IF WaitFailed(ContextCanceled)
       THEN /\ upc' = [upc EXCEPT ![u] = "returned"]
            /\ uerr' = [uerr EXCEPT ![u] = ContextCanceled]
       ELSE /\ upc' = [upc EXCEPT ![u] = "newSwap"]
            /\ UNCHANGED uerr

\* First select of waitForInitialized. With both cases ready the select
\* takes either.
UnchargeWaitExecutor(u) ==
    /\ upc[u] = "waitExecutor"
    /\ InCallOrder(upc, u, "waitExecutor")
    /\ \/ /\ GateOpen("executor")
          /\ upc' = [upc EXCEPT ![u] = "waitResume"]
          /\ UNCHANGED <<uerr, uctx>>
       \/ WaitCtxDone(u)
    /\ UNCHANGED <<started, resumeReady, closeCount, store, runVars, resVars,
                   execVars, uhash, newSubmitted, uamt, heightReads, reply>>

\* Second select of waitForInitialized.
UnchargeWaitResume(u) ==
    /\ upc[u] = "waitResume"
    /\ \/ /\ GateOpen("resume")
          /\ upc' = [upc EXCEPT ![u] = "newSwap"]
          /\ UNCHANGED <<uerr, uctx>>
       \/ WaitCtxDone(u)
    /\ UNCHANGED <<started, resumeReady, closeCount, store, runVars, resVars,
                   execVars, uhash, newSubmitted, uamt, heightReads, reply>>

\* ------------------------------------------------------- Client.Uncharge
\* Variant: the minimum itself is rejected.
AmountTooLowInclusive(amount, terms) == amount <= terms.MinSwapAmount

\* request.Amount < terms.MinSwapAmount
AmountTooLow(amount, terms) == amount < terms.MinSwapAmount

\* request.Amount > terms.MaxSwapAmount
AmountTooHigh(amount, terms) == amount > terms.MaxSwapAmount

\* The check of a request amount against the terms of the server.
AmountError(amount, terms) ==
    IF AmountTooLow(amount, terms) THEN ErrSwapAmountTooLow
    ELSE IF AmountTooHigh(amount, terms) THEN ErrSwapAmountTooHigh
    ELSE Nil

\* The identifier hash of a new swap is fresh: no record carries it. Hash
\* values are interchangeable, so the least unused one stands for it.
FreshHash == CHOOSE h \in Hashes :
                /\ store[h] = NoRecord
                /\ \A g \in Hashes : store[g] = NoRecord => h <= g

\* The results of newUnchargeSwap for an amount: the error of the amount
\* check; for an accepted amount nil, or the error of another validation
\* or of a collaborator.
NewUnchargeSwapResults(amount) ==
    IF AmountError(amount, ExampleTerms) # Nil
    THEN {AmountError(amount, ExampleTerms)}
    ELSE {Nil, ErrNewSwap}

\* Variant: the initial record is written before the request is validated.
StoreAfterNewSwapAlways(st, h, err) == [st EXCEPT ![h] = StateTypePending]

\* Variant: the initial record is never written.
StoreAfterNewSwapNever(st, h, err) == st

\* newUnchargeSwap persists the initial record of the swap it constructed,
\* and leaves the store alone when it fails.
StoreAfterNewSwap(st, h, err) ==
    IF err = Nil THEN [st EXCEPT ![h] = StateTypePending] ELSE st

\* s.executor.height() and newUnchargeSwap: the request is rejected and
\* Uncharge returns the error, or the swap gets a fresh hash and its initial
\* record is persisted.
UnchargeNewSwap(u) ==
    /\ upc[u] = "newSwap"
    /\ heightReads' = heightReads + 1
    /\ \E err \in NewUnchargeSwapResults(uamt[u]) :
         /\ store' = StoreAfterNewSwap(store, FreshHash, err)
         /\ IF err # Nil
            THEN /\ upc' = [upc EXCEPT ![u] = "returned"]
                 /\ uerr' = [uerr EXCEPT ![u] = err]
                 /\ UNCHANGED uhash
            ELSE /\ uhash' = [uhash EXCEPT ![u] = FreshHash]
                 /\ upc' = [upc EXCEPT ![u] = "initiate"]
                 /\ UNCHANGED uerr
    /\ UNCHANGED <<started, resumeReady, closeCount, runVars, resVars,
                   execVars, newSubmitted, uamt, uctx, reply>>

\* s.executor.initiateSwap(globalCtx, swap), case <-ctx.Done(): Uncharge
\* returns the hash although the executor never received the swap.
UnchargeInitiateDone(u) ==
    /\ upc[u] = "initiate"
    /\ upc' = [upc EXCEPT ![u] = "returned"]
    /\ UNCHANGED <<started, resumeReady, closeCount, store, runVars, resVars,
                   execVars, uerr, uhash, newSubmitted, uamt, uctx,
                   heightReads, reply>>

\* ------------------------------------------------- read-only operations
\* utils.CalcFee: the base fee plus the rate applied to the amount.
CalcFee(amount, feeBase, feeRate) ==
    feeBase + (amount * feeRate.num) \div feeRate.den

\* Sweeper.GetSweepFee: the estimate of the miner fee for a confirmation
\* target; confirming sooner costs more.
GetSweepFee(confTarget) == 12000 \div confTarget

\* Variant: the base fee is left out of the swap fee.
SwapFeeWithoutBase(amount, terms) == CalcFee(amount, 0, terms.SwapFeeRate)

\* utils.CalcFee(request.Amount, terms.SwapFeeBase, terms.SwapFeeRate)
SwapFee(amount, terms) ==
    CalcFee(amount, terms.SwapFeeBase, terms.SwapFeeRate)

\* What UnchargeQuote returns for a request, given whether the server
\* answers the terms query and whether the sweeper gives an estimate.
UnchargeQuoteReply(amount, confTarget, termsOk, sweepOk) ==
    LET terms == ExampleTerms
        failed(err) == [op |-> "UnchargeQuote", amount |-> amount,
                        confTarget |-> confTarget, err |-> err]
    IN  IF ~termsOk THEN failed(ErrServer)
        ELSE IF AmountTooLow(amount, terms) THEN failed(ErrSwapAmountTooLow)
        ELSE IF AmountTooHigh(amount, terms) THEN failed(ErrSwapAmountTooHigh)
        ELSE IF ~sweepOk THEN failed(ErrSweeper)
        ELSE [op |-> "UnchargeQuote", amount |-> amount,
              confTarget |-> confTarget, err |-> Nil,
              SwapFee |-> SwapFee(amount, terms),
              MinerFee |-> GetSweepFee(confTarget),
              PrepayAmount |-> terms.PrepayAmt]

\* Variant: UnchargeQuote keeps a record of the request it quoted.
UnchargeQuotePersisting ==
    \E amount \in RequestAmounts : \E confTarget \in SweepConfTargets :
        /\ reply' = UnchargeQuoteReply(amount, confTarget, TRUE, TRUE)
        /\ store' = [store EXCEPT ![1] = StateTypePending]
        /\ UNCHANGED <<started, resumeReady, closeCount, runVars, resVars,
                       execVars, unchVars>>

\* Client.UnchargeQuote.
UnchargeQuote ==
    \E amount \in RequestAmounts : \E confTarget \in SweepConfTargets :
    \E termsOk \in BOOLEAN : \E sweepOk \in BOOLEAN :
        /\ reply' = UnchargeQuoteReply(amount, confTarget, termsOk, sweepOk)
        /\ UNCHANGED <<started, resumeReady, closeCount, store, runVars,
                       resVars, execVars, unchVars>>

\* Client.UnchargeTerms: the answer of the server, passed through.
UnchargeTerms ==
    \E ok \in BOOLEAN :
        /\ reply' = IF ok
                    THEN [op |-> "UnchargeTerms", err |-> Nil,
                          terms |-> ExampleTerms]
                    ELSE [op |-> "UnchargeTerms", err |-> ErrServer]
        /\ UNCHANGED <<started, resumeReady, closeCount, store, runVars,
                       resVars, execVars, unchVars>>

\* Client.GetUnchargeSwaps: the answer of the store, passed through.
ClientGetUnchargeSwaps ==
    \E ok \in BOOLEAN :
        /\ reply' = IF ok
                    THEN [op |-> "GetUnchargeSwaps", err |-> Nil,
                          swaps |-> GetUnchargeSwaps(store)]
                    ELSE [op |-> "GetUnchargeSwaps", err |-> ErrStore]
        /\ UNCHANGED <<started, resumeReady, closeCount, store, runVars,
                       resVars, execVars, unchVars>>

\* ------------------------------------------------------------------ Next
Next ==
    \/ \E r \in RunCallers : RunGuard(r)
    \/ \E r \in RunCallers : RunGetInfo(r)
    \/ \E r \in RunCallers : RunSnapshot(r)
    \/ \E r \in RunCallers : RunWait(r)
    \/ \E r \in RunCallers : CancelRun(r)
    \/ ResumeStep
    \/ ResumeInitiateDone
    \/ ResumeClose
    \/ ExecFirstBlock
    \/ ExecNewSwapResumed
    \/ \E u \in UnchargeCallers : ExecNewSwapUncharge(u)
    \/ ExecBlockError
    \/ ExecDone
    \/ \E h \in Hashes : UnitTerminal(h)
    \/ \E h \in Hashes : UnitCanceled(h)
    \/ \E u \in UnchargeCallers : UnchargeWaitExecutor(u)
    \/ \E u \in UnchargeCallers : UnchargeWaitResume(u)
    \/ \E u \in UnchargeCallers : UnchargeNewSwap(u)
    \/ \E u \in UnchargeCallers : UnchargeInitiateDone(u)

Spec == Init /\ [][Next]_vars

\* The program with the cancellation of an Uncharge call's context as a
\* step of its own, which the select of the call observes later or, when
\* the gate opens first, not at all. Spec has the cancellation in the step
\* that observes it.
CancelNext == Next \/ \E u \in UnchargeCallers : CancelUncharge(u)

CancelSpec == Init /\ [][CancelNext]_vars

\* The caller of a read-only operation takes its answer.
ReplyTaken ==
    /\ reply # NoReply
    /\ reply' = NoReply
    /\ UNCHANGED <<started, resumeReady, closeCount, store, runVars,
                   resVars, execVars, unchVars>>

\* The program with its read-only operations, for requests of every amount.
\* A read-only operation reads no state a step of the program writes, except
\* the store, which GetUnchargeSwaps reads in one step; so a call is one
\* step, taken in any state of the program, and its answer is taken before
\* the program goes on.
QuoteNext ==
    \/ reply = NoReply /\ Next
    \/ reply = NoReply /\ UnchargeQuote
    \/ reply = NoReply /\ UnchargeTerms
    \/ reply = NoReply /\ ClientGetUnchargeSwaps
    \/ ReplyTaken

QuoteSpec == InitClient(RequestAmounts) /\ [][QuoteNext]_vars

\* The steps the scheduler owes the program: those of the executor loop
\* (its start, the receipt of a swap the resume pass holds out, its end on
\* the cancellation) and of Run after it, those of the resume goroutine,
\* and the exit of a unit that can observe the cancellation.
Progress ==
    \/ \E r \in RunCallers : RunWait(r)
    \/ ResumeStep
    \/ ResumeInitiateDone
    \/ ResumeClose
    \/ ExecFirstBlock
    \/ ExecNewSwapResumed
    \/ ExecDone
    \/ \E h \in Hashes : UnitCanceled(h)

\* No step changes the state back, so a behaviour comes to rest; fairness
\* says it does not rest while one of the steps above can be taken.
FairSpec == Spec /\ WF_vars(Progress)

\* ----------------------------------------------------------------- claims
SnapshotIndexes == 1..Len(pendingSwaps)
SnapshotHashes == {pendingSwaps[i].hash : i \in SnapshotIndexes}

\* C1: in every reachable state no two ExecutionUnits held by the Executor
\* share an identifier hash.
C1_UniqueUnits == \A h \in Hashes : units[h] <= 1

\* A resumed swap and a swap created by Uncharge execute at the same time.
C1_Witness ==
    \E h \in Hashes : \E g \in Hashes :
        /\ h # g
        /\ units[h] = 1 /\ resumed[h] = 1
        /\ units[g] = 1 /\ g \in newSubmitted

\* C2: whenever Uncharge is past waitForInitialized (it creates, submits or
\* has submitted a new swap), both gates have fired, the resume pass has
\* handled every record of its snapshot and exited, the snapshot was taken,
\* and the new swap is not part of that snapshot.
C2_SubmitAfterResume ==
    \A u \in UnchargeCallers :
        (upc[u] \in {"newSwap", "initiate"} \/ uhash[u] # 0) =>
            /\ execReady /\ resumeReady
            /\ resPc = "done" /\ resIdx > Len(pendingSwaps)
            /\ storeReads >= 1
            /\ uhash[u] \notin SnapshotHashes

\* Uncharge has submitted a new swap after the resume pass submitted one.
C2_Witness ==
    /\ newSubmitted # {}
    /\ \E h \in Hashes : resumed[h] = 1

\* C3 as stated: once the resume pass is complete, every record that was
\* Pending in the snapshot has been submitted exactly once.
C3_ResumedExactlyOnce ==
    resumeReady =>
        \A i \in SnapshotIndexes :
            pendingSwaps[i].state = StateTypePending =>
                resumed[pendingSwaps[i].hash] = 1

\* C3 amended: the resume pass never submits a swap twice; once it is
\* complete, a record that was Pending in the snapshot has been submitted
\* exactly once unless its reconstruction failed or the main context was
\* done when it was handed over, and then it has not been submitted.
C3_ResumedOnceUnlessFailedOrCancelled ==
    /\ \A h \in Hashes : resumed[h] <= 1
    /\ resumeDropped # {} => MainDone
    /\ resumeReady =>
        \A i \in SnapshotIndexes :
            LET h == pendingSwaps[i].hash IN
            pendingSwaps[i].state = StateTypePending =>
                /\ h \in resumeTried
                /\ resumed[h] = 1 <=> h \notin (resumeFailed \cup resumeDropped)

\* The pass is complete; one pending record was submitted and no record was
\* lost to an error or to the cancellation.
C3_Witness ==
    /\ resumeReady
    /\ resumeFailed = {} /\ resumeDropped = {}
    /\ \E i \in SnapshotIndexes :
         /\ pendingSwaps[i].state = StateTypePending
         /\ resumed[pendingSwaps[i].hash] = 1

\* C4: a record that is Terminal in the snapshot is never reconstructed and
\* never submitted by the resume pass.
C4_TerminalNeverResumed ==
    \A i \in SnapshotIndexes :
        pendingSwaps[i].state \in TerminalStates =>
            /\ pendingSwaps[i].hash \notin resumeTried
            /\ resumed[pendingSwaps[i].hash] = 0

\* The pass is complete over a snapshot that has a Terminal record before a
\* Pending one, and the Pending one was submitted.
C4_Witness ==
    /\ resumeReady
    /\ Len(pendingSwaps) = 2
    /\ pendingSwaps[1].state \in TerminalStates
    /\ pendingSwaps[2].state = StateTypePending
    /\ resumed[pendingSwaps[2].hash] = 1

\* C5 as stated: Uncharge only returns after both gates have opened.
C5_ReturnsAfterGates ==
    \A u \in UnchargeCallers :
        upc[u] = "returned" => execReady /\ resumeReady

\* C5 amended: while a gate is closed Uncharge is blocked in
\* waitForInitialized, or it has returned the error of its own cancelled
\* context without creating a swap.
C5_BlockedUnlessCancelled ==
    \A u \in UnchargeCallers :
        ~(execReady /\ resumeReady) =>
            \/ upc[u] \in {"waitExecutor", "waitResume"}
            \/ /\ upc[u] = "returned"
               /\ uerr[u] = ContextCanceled
               /\ uhash[u] = 0

\* An Uncharge call has returned the hash of a swap it submitted, after a
\* resume pass that had a swap to resume.
C5_Witness ==
    \E u \in UnchargeCallers :
        /\ upc[u] = "returned" /\ uerr[u] = Nil
        /\ uhash[u] \in newSubmitted
        /\ resumeTried # {}

\* C6: at most one Run call passes the start guard; every other call returns
\* the error, and the step in which it does changes nothing else.
C6_RunOnce ==
    /\ [](/\ Cardinality(passed) <= 1
          /\ getInfoCalls <= 1 /\ storeReads <= 1
          /\ \A r \in RunCallers \ passed :
                rpc[r] = "returned" => rerr[r] = ErrStartedOnce)
    /\ [][\A r \in RunCallers :
            (rpc[r] = "guard" /\ rpc'[r] = "returned") =>
                /\ rerr'[r] = ErrStartedOnce
                /\ UNCHANGED <<started, resumeReady, closeCount, store,
                               passed, mainCancel, getInfoCalls, storeReads,
                               pendingSwaps, resVars, execVars, unchVars, reply>>]_vars

\* A second Run call was rejected while the first runs the executor loop.
C6_Witness ==
    \E r \in passed : \E q \in RunCallers \ passed :
        /\ rpc[r] = "executorRun"
        /\ rpc[q] = "returned" /\ rerr[q] = ErrStartedOnce

\* C7: when the executor loop ends on the cancellation, Run returns nil and
\* only with no unit running and the resume goroutine gone; and once the
\* context is cancelled while Run is in the executor loop, Run returns.
C7_CancelReturnsNil ==
    /\ [](\A r \in passed :
            (rpc[r] = "returned" /\ eerr = ContextCanceled) =>
                /\ rerr[r] = Nil
                /\ \A h \in Hashes : units[h] = 0
                /\ resPc = "done")
    /\ (\E r \in passed : rctx[r] /\ rpc[r] = "executorRun")
          ~> (\E r \in passed : rpc[r] = "returned")

\* Run returned nil after a cancellation that ended a running unit: the
\* swap was handed to the executor and its record is still Pending.
C7_Witness ==
    \E r \in passed : \E h \in Hashes :
        /\ rpc[r] = "returned" /\ rerr[r] = Nil
        /\ rctx[r] /\ eerr = ContextCanceled
        /\ resumed[h] = 1 /\ store[h] = StateTypePending

\* C8: whenever Run terminates because its context was cancelled, it
\* returns nil.
C8_CancelNeverError ==
    \A r \in RunCallers :
        (rpc[r] = "returned" /\ rcause[r] = "canceled") => rerr[r] = Nil

\* C9: once the executor loop was started, Run returns only after
\* mainCancel, with the loop ended, no unit running and the resume
\* goroutine gone.
C9_ReturnAfterDrain ==
    \A r \in passed :
        (rpc[r] = "returned" /\ epc # "idle") =>
            /\ mainCancel
            /\ epc = "returned"
            /\ \A h \in Hashes : units[h] = 0
            /\ resPc = "done"

\* Run returned after units of a resumed and of a new swap had run.
C9_Witness ==
    \E r \in passed :
        /\ rpc[r] = "returned"
        /\ newSubmitted # {}
        /\ \E h \in Hashes : resumed[h] = 1

\* C10: when the executor loop returns a fatal error, Run returns exactly
\* that error, after mainCancel and with no unit and no resume goroutine
\* left.
C10_FatalErrorReturned ==
    \A r \in passed :
        (rpc[r] = "returned" /\ eerr \in FatalErrors) =>
            /\ rerr[r] = eerr
            /\ mainCancel
            /\ \A h \in Hashes : units[h] = 0
            /\ resPc = "done"

\* Run returned the block error; its caller never cancelled, so the swap
\* the resume pass dropped was in its hands when the loop failed.
C10_Witness ==
    \E r \in passed :
        /\ rpc[r] = "returned" /\ rerr[r] = ErrBlock
        /\ ~rctx[r]
        /\ resumeDropped # {}

\* C11 as stated: whenever Uncharge has returned a hash and no error, the
\* initial record of the swap is in the store and the swap was handed to
\* the executor.
C11_PersistedAndSubmitted ==
    \A u \in UnchargeCallers :
        (upc[u] = "returned" /\ uerr[u] = Nil) =>
            /\ uhash[u] \in Hashes
            /\ store[uhash[u]] # NoRecord
            /\ uhash[u] \in newSubmitted

\* C11 amended: whenever Uncharge has returned a hash and no error, the
\* record of the swap is in the store; the executor received the swap, or
\* the hand-over was given up on the done context, and then no unit exists
\* for the swap and its record is still Pending. At the step in which
\* Uncharge returns a swap the executor received, the swap is executing and
\* not terminal.
C11_PersistedSubmittedUnlessDropped ==
    /\ [](\A u \in UnchargeCallers :
            (upc[u] = "returned" /\ uerr[u] = Nil) =>
                /\ uhash[u] \in Hashes
                /\ store[uhash[u]] # NoRecord
                /\ \/ uhash[u] \in newSubmitted
                   \/ /\ units[uhash[u]] = 0
                      /\ store[uhash[u]] = StateTypePending)
    /\ [][\A u \in UnchargeCallers :
            (upc[u] = "initiate" /\ upc'[u] = "returned"
                /\ newSubmitted' # newSubmitted) =>
                /\ units'[uhash[u]] = 1
                /\ store'[uhash[u]] = StateTypePending]_vars

\* Uncharge has returned the hash of a swap that the executor runs and that
\* is not terminal.
C11_Witness ==
    \E u \in UnchargeCallers :
        /\ upc[u] = "returned" /\ uerr[u] = Nil
        /\ uhash[u] \in newSubmitted
        /\ units[uhash[u]] = 1
        /\ store[uhash[u]] = StateTypePending

\* C12: the step in which a unit ends in Failed changes the record and the
\* unit of that swap only: the executor loop, Run, the resume pass, every
\* other unit and every other record are as before. The step in which a
\* record fails to be reconstructed changes no unit, no record and not the
\* executor loop, and the resume pass goes on: once it is complete, every
\* Pending record behind a failed one has been reconstructed in its turn and
\* was submitted unless it failed itself or the context was done.
C12_FailureIsolated ==
    /\ [](resumeReady =>
            \A i \in SnapshotIndexes : \A j \in SnapshotIndexes :
                (/\ i < j
                 /\ pendingSwaps[i].hash \in resumeFailed
                 /\ pendingSwaps[j].state = StateTypePending) =>
                    /\ pendingSwaps[j].hash \in resumeTried
                    /\ \/ resumed[pendingSwaps[j].hash] = 1
                       \/ pendingSwaps[j].hash \in resumeFailed
                       \/ pendingSwaps[j].hash \in resumeDropped)
    /\ [][\A h \in Hashes :
            (units'[h] < units[h] /\ store'[h] = "failed") =>
                /\ \A g \in Hashes \ {h} :
                      units'[g] = units[g] /\ store'[g] = store[g]
                /\ UNCHANGED <<epc, eerr, execReady, runVars, resVars,
                               started, resumeReady, unchVars>>]_vars
    /\ [][resumeFailed' # resumeFailed =>
            /\ resPc' = "loop"
            /\ UNCHANGED <<units, store, epc, eerr, execReady, runVars,
                           resumed, unchVars>>]_vars

\* The first record of the snapshot failed to be reconstructed and the
\* second one runs; the swap made by Uncharge has ended in Failed, and the
\* executor loop and the resumed unit go on.
C12_Witness ==
    /\ resumeReady
    /\ Len(pendingSwaps) = 2
    /\ pendingSwaps[1].hash \in resumeFailed
    /\ resumed[pendingSwaps[2].hash] = 1
    /\ units[pendingSwaps[2].hash] = 1
    /\ epc = "loop"
    /\ \E h \in newSubmitted : store[h] = "failed" /\ units[h] = 0

\* C13: given the terms of the server, a request whose amount is below the
\* minimum fails with ErrSwapAmountTooLow and one whose amount is above the
\* maximum with ErrSwapAmountTooHigh, in UnchargeQuote and in Uncharge (which
\* can return its context's error before it looks at the amount); such a
\* request creates no swap, and the step that rejects it leaves the store as
\* it is. An amount equal to the minimum or to the maximum gets neither
\* error.
C13_AmountBounds ==
    /\ []((reply.op = "UnchargeQuote" /\ reply.err # ErrServer) =>
            /\ reply.amount < ExampleTerms.MinSwapAmount =>
                  reply.err = ErrSwapAmountTooLow
            /\ reply.amount > ExampleTerms.MaxSwapAmount =>
                  reply.err = ErrSwapAmountTooHigh
            /\ reply.amount \in {ExampleTerms.MinSwapAmount,
                                 ExampleTerms.MaxSwapAmount} =>
                  reply.err \notin {ErrSwapAmountTooLow, ErrSwapAmountTooHigh})
    /\ [](\A u \in UnchargeCallers :
            /\ uamt[u] < ExampleTerms.MinSwapAmount =>
                  /\ upc[u] # "initiate" /\ uhash[u] = 0
                  /\ upc[u] = "returned" =>
                        uerr[u] \in {ErrSwapAmountTooLow, ContextCanceled}
            /\ uamt[u] > ExampleTerms.MaxSwapAmount =>
                  /\ upc[u] # "initiate" /\ uhash[u] = 0
                  /\ upc[u] = "returned" =>
                        uerr[u] \in {ErrSwapAmountTooHigh, ContextCanceled}
            /\ uamt[u] \in {ExampleTerms.MinSwapAmount,
                            ExampleTerms.MaxSwapAmount} =>
                  uerr[u] \notin {ErrSwapAmountTooLow, ErrSwapAmountTooHigh})
    /\ [][\A u \in UnchargeCallers :
            (/\ upc[u] = "newSwap" /\ upc'[u] # "newSwap"
             /\ \/ uamt[u] < ExampleTerms.MinSwapAmount
                \/ uamt[u] > ExampleTerms.MaxSwapAmount) =>
                /\ upc'[u] = "returned"
                /\ uerr'[u] \in {ErrSwapAmountTooLow, ErrSwapAmountTooHigh}
                /\ UNCHANGED <<store, units, newSubmitted, uhash>>]_vars
    /\ [][(reply'.op = "UnchargeQuote" /\ reply' # reply) =>
            store' = store]_vars

\* Uncharge has rejected an amount one below the minimum, after the resume
\* pass handled a record, and UnchargeQuote rejects an amount one above the
\* maximum.
C13_Witness ==
    /\ reply.op = "UnchargeQuote"
    /\ reply.amount = ExampleTerms.MaxSwapAmount + 1
    /\ reply.err = ErrSwapAmountTooHigh
    /\ resumeTried # {}
    /\ \E u \in UnchargeCallers :
          /\ uamt[u] = ExampleTerms.MinSwapAmount - 1
          /\ upc[u] = "returned"
          /\ uerr[u] = ErrSwapAmountTooLow

\* C14: when newUnchargeSwap fails, Uncharge returns the error in that step
\* and creates nothing: the store, the units, the set of submitted swaps
\* and the hash of the call are as before, and a call that has returned such
\* an error has no swap.
C14_ConstructionFailureNoMutation ==
    /\ [](\A u \in UnchargeCallers :
            uerr[u] \in {ErrNewSwap, ErrSwapAmountTooLow,
                         ErrSwapAmountTooHigh} =>
                /\ upc[u] = "returned"
                /\ uhash[u] = 0)
    /\ [][\A u \in UnchargeCallers :
            (upc[u] = "newSwap" /\ upc'[u] = "returned") =>
                /\ uerr'[u] # Nil
                /\ UNCHANGED <<store, units, newSubmitted, uhash, resumed,
                               epc, execReady, resumeReady, started>>]_vars

\* A construction failed while the store holds a record and a resumed swap
\* is executing.
C14_Witness ==
    \E u \in UnchargeCallers : \E h \in Hashes :
        /\ upc[u] = "returned" /\ uerr[u] = ErrNewSwap
        /\ resumed[h] = 1 /\ units[h] = 1
        /\ store[h] = StateTypePending

\* C15: a step of UnchargeQuote, UnchargeTerms or GetUnchargeSwaps, whatever
\* its outcome and whatever Run and Uncharge have done so far, changes
\* nothing but the answer given to its caller: not the store, not the units
\* of the executor, not the started flag and not the gates.
C15_ReadOnly ==
    [][reply' # reply =>
        UNCHANGED <<store, units, started, resumeReady, closeCount,
                    execReady, epc, eerr, runVars, resVars, unchVars>>]_vars

\* UnchargeQuote has answered with a quote while Run is in the executor
\* loop, both gates are open, a resumed swap executes and Uncharge has
\* persisted a new one.
C15_Witness ==
    /\ reply.op = "UnchargeQuote" /\ reply.err = Nil
    /\ started = 1 /\ execReady /\ resumeReady
    /\ \E h \in Hashes : resumed[h] = 1 /\ units[h] = 1
    /\ \E u \in UnchargeCallers : upc[u] = "initiate"

\* C16: a quote that UnchargeQuote returns carries as swap fee the base fee
\* plus the rate applied to the amount (100 plus one hundredth of the
\* amount: 200 for 10000, 600 for 50000, 10100 for 1000000), whatever the
\* confirmation target and the miner fee, and as prepay amount the prepay
\* amount of the terms; and it is returned for an amount within the bounds
\* only.
C16_QuoteFee ==
    (reply.op = "UnchargeQuote" /\ reply.err = Nil) =>
        /\ reply.amount >= ExampleTerms.MinSwapAmount
        /\ reply.amount <= ExampleTerms.MaxSwapAmount
        /\ reply.SwapFee =
              ExampleTerms.SwapFeeBase + reply.amount \div 100
        /\ reply.amount = 10000 => reply.SwapFee = 200
        /\ reply.amount = 50000 => reply.SwapFee = 600
        /\ reply.amount = 1000000 => reply.SwapFee = 10100
        /\ reply.PrepayAmount = ExampleTerms.PrepayAmt
        /\ reply.PrepayAmount = 1337

\* The quote of the example: amount 50000, swap fee 600, asked for while
\* the client runs.
C16_Witness ==
    /\ reply.op = "UnchargeQuote" /\ reply.err = Nil
    /\ reply.amount = 50000 /\ reply.SwapFee = 600
    /\ reply.confTarget = 6
    /\ started = 1

\* C17: Run reads the store at most once, after its one connectivity check
\* and in a state in which neither the resume pass nor the executor loop
\* has started; the resume pass and the executor loop exist only after that
\* read, the loop never without the pass; and a Run that has returned the
\* error of the connectivity check or of the store read has started
\* neither, the former without reading the store.
C17_RunStepOrder ==
    /\ [](/\ storeReads <= 1
          /\ storeReads <= getInfoCalls
          /\ getInfoCalls <= 1
          /\ (resPc # "none" \/ epc # "idle") =>
                storeReads = 1 /\ getInfoCalls = 1
          /\ epc # "idle" => resPc # "none"
          /\ \A r \in RunCallers :
                /\ rpc[r] = "executorRun" => storeReads = 1
                /\ (rpc[r] = "returned" /\ rerr[r] \in {ErrGetInfo, ErrStore}) =>
                      /\ resPc = "none" /\ epc = "idle"
                      /\ ~execReady /\ ~resumeReady
                      /\ pendingSwaps = <<>>
                /\ (rpc[r] = "returned" /\ rerr[r] = ErrGetInfo) =>
                      storeReads = 0)
    /\ [][storeReads' # storeReads =>
            /\ getInfoCalls = 1 /\ getInfoCalls' = 1
            /\ resPc = "none" /\ epc = "idle"
            /\ store' = store]_vars
    /\ [][(epc = "idle" /\ epc' # "idle") =>
            /\ storeReads' = 1
            /\ resPc' = "loop"
            /\ pendingSwaps' = GetUnchargeSwaps(store)]_vars

\* Run is in the executor loop after one connectivity check and one read of
\* a store that holds two records, and the resume pass has handled both.
C17_Witness ==
    /\ \E r \in passed : rpc[r] = "executorRun"
    /\ getInfoCalls = 1 /\ storeReads = 1
    /\ Len(pendingSwaps) = 2
    /\ epc = "loop" /\ resPc = "done"

\* C18: the resume-complete gate is closed at most once, whatever Run and
\* Uncharge calls are made; it is open exactly when it was closed once;
\* once open it stays open; and once the resume pass has been started the
\* gate opens, also when records fail to be reconstructed or the context is
\* cancelled during the pass.
C18_ResumeGateOneShot ==
    /\ [](/\ closeCount <= 1
          /\ resumeReady <=> closeCount = 1
          /\ resPc = "done" => resumeReady)
    /\ [][resumeReady => resumeReady']_vars
    /\ (resPc # "none") ~> resumeReady

\* The gate is open after a pass in which one record failed to be
\* reconstructed and one hand-over was cut off by the cancellation.
C18_Witness ==
    /\ resumeReady /\ closeCount = 1
    /\ resumeFailed # {}
    /\ resumeDropped # {}
    /\ \E r \in passed : rctx[r]

C20_EarlyFailureUnusable ==
    /\ []((\E q \in passed :
              rpc[q] = "returned" /\ rerr[q] \in {ErrGetInfo, ErrStore}) =>
            /\ started = 1
            /\ ~resumeReady /\ closeCount = 0 /\ resPc = "none"
            /\ ~execReady /\ epc = "idle"
            /\ \A r \in RunCallers \ passed :
                  /\ rpc[r] \in {"guard", "returned"}
                  /\ rpc[r] = "returned" => rerr[r] = ErrStartedOnce
            /\ \A u \in UnchargeCallers :
                  \/ upc[u] = "waitExecutor" /\ uerr[u] = Nil
                  \/ upc[u] = "returned" /\ uerr[u] = ContextCanceled
                                         /\ uctx[u]
            /\ \A u \in UnchargeCallers : uhash[u] = 0
            /\ heightReads = 0 /\ newSubmitted = {})
    /\ [][started = 1 => started' = 1]_vars
    /\ [][(\E q \in passed :
              rpc[q] = "returned" /\ rerr[q] \in {ErrGetInfo, ErrStore}) =>
            /\ passed' = passed
            /\ \A q \in passed : rpc'[q] = rpc[q] /\ rerr'[q] = rerr[q]
            /\ store' = store]_vars

\* The first Run failed at the Store snapshot, a later Run was rejected by
\* the start guard and an Uncharge gave up waiting when its context was
\* cancelled.
C20_Witness ==
    /\ \E q \in passed : rpc[q] = "returned" /\ rerr[q] = ErrStore
    /\ \E r \in RunCallers \ passed :
          rpc[r] = "returned" /\ rerr[r] = ErrStartedOnce
    /\ \E u \in UnchargeCallers :
          upc[u] = "returned" /\ uerr[u] = ContextCanceled
    /\ ~resumeReady /\ ~execReady

====
